---- MODULE Spec2Model ----
(***************************************************************************)
(* Compile-time sets of set.hpp.  A type set<I, is...> is modelled by the  *)
(* sequence of its pack is...; every alias template and constexpr member   *)
(* is an operator on such sequences, computed by the recursion the header  *)
(* uses.  The state machine holds one set type (self) and applies the      *)
(* member templates to it, the operands being drawn from bounded packs.    *)
(***************************************************************************)
EXTENDS Integers, Sequences, FiniteSets

\* Element values are 1..MaxElem.  A literal set or bag has at most MaxLen
\* elements, the pack js... given to a member template at most MaxOther.
MaxElem == 3
MaxLen == 3
MaxOther == 2

Elems == 1..MaxElem

RECURSIVE SeqsUpTo(_)
SeqsUpTo(n) ==
    IF n = 0 THEN {<<>>}
    ELSE LET shorter == SeqsUpTo(n - 1)
         IN  shorter \cup {<<e>> \o s : e \in Elems, s \in {t \in shorter : Len(t) = n - 1}}

\* Every literal pack, duplicates allowed.
Packs == SeqsUpTo(MaxLen)

(***************************************************************************)
(* Mathematical vocabulary of the properties (not taken from the header).  *)
(***************************************************************************)
Range(s) == {s[k] : k \in DOMAIN s}

NoDup(s) == \A k, l \in DOMAIN s : k # l => s[k] # s[l]

\* Packs without duplicates: the operands js... of the set algebra.
Sets == {s \in SeqsUpTo(MaxOther) : NoDup(s)}

StrictlyAscending(s) == \A k, l \in DOMAIN s : k < l => s[k] < s[l]

\* The subsequence of s at the positions K, in the order of s.
PickIdx(s, K) ==
    LET F[k \in 0..Len(s)] ==
            IF k = 0 THEN <<>>
            ELSE IF k \in K THEN F[k - 1] \o <<s[k]>> ELSE F[k - 1]
    IN  F[Len(s)]

\* The positions of s whose value occurs at no later position.
LastIdx(s) == {k \in DOMAIN s : \A l \in DOMAIN s : l > k => s[l] # s[k]}

\* The elements of s that satisfy membership in (keep = TRUE) or absence
\* from (keep = FALSE) the set of values V, in the order of s.
Restrict(s, V, keep) == PickIdx(s, {k \in DOMAIN s : (s[k] \in V) = keep})


(***************************************************************************)
(* namespace type_traits                                                   *)
(***************************************************************************)
RECURSIVE contains(_, _)
contains(is, j) ==
    IF is = <<>> THEN FALSE
    ELSE Head(is) = j \/ contains(Tail(is), j)

RECURSIVE is_everse_list(_)
is_everse_list(is) ==
    IF Len(is) < 2 THEN TRUE
    ELSE is[1] <= is[2] /\ is_everse_list(Tail(is))

(***************************************************************************)
(* struct set: instantiation.  The primary template accepts the empty pack *)
(* only; the specialisation set<I, i, is...> derives from set<I, is...>,   *)
(* so instantiating it instantiates every tail, and each level evaluates   *)
(* its two static_asserts.  The first names the function template is_set   *)
(* without calling it, so its operand is a function address, which is      *)
(* never null; the second tests the head against the tail.                 *)
(***************************************************************************)
set_instantiate_head_only(is) ==
    IF is = <<>> THEN TRUE
    ELSE ~contains(Tail(is), Head(is))

RECURSIVE set_instantiate(_)
set_instantiate(is) ==
    IF is = <<>> THEN TRUE
    ELSE /\ set_instantiate(Tail(is))
         /\ TRUE
         /\ ~contains(Tail(is), Head(is))

size(is) == IF is = <<>> THEN 0 ELSE 1 + Len(Tail(is))

(***************************************************************************)
(* struct set: subset_of, equals, operator ==, operator !=                 *)
(***************************************************************************)
RECURSIVE subset_of(_, _)
subset_of(is, js) ==
    IF is = <<>> THEN TRUE
    ELSE contains(js, Head(is)) /\ subset_of(Tail(is), js)

equals_one_way(is, js) ==
    IF is = <<>> THEN TRUE
    ELSE subset_of(is, js)

\* set<I, js...>::subset_of<i, is...> is the member of the other pack's type.
equals(is, js) ==
    IF is = <<>> THEN 0 = Len(js)
    ELSE subset_of(is, js) /\ subset_of(js, is)

operator_eq(is, js) == equals(is, js)

operator_ne(is, js) == ~equals(is, js)

(***************************************************************************)
(* struct set: prepend, append                                             *)
(***************************************************************************)
prepend_unchecked(is, j) == <<j>> \o is

prepend_at_back(is, j) ==
    IF is = <<>> THEN <<j>>
    ELSE IF contains(is, j) THEN is ELSE is \o <<j>>

prepend(is, j) ==
    IF is = <<>> THEN <<j>>
    ELSE IF contains(is, j) THEN is ELSE <<j>> \o is

append_unchecked(is, j) == is \o <<j>>

append(is, j) ==
    IF is = <<>> THEN <<j>>
    ELSE IF contains(is, j) THEN is ELSE is \o <<j>>

(***************************************************************************)
(* struct bag: set_t                                                       *)
(***************************************************************************)
RECURSIVE bag_keep_first(_)
bag_keep_first(is) ==
    IF is = <<>> THEN <<>>
    ELSE append(bag_keep_first(SubSeq(is, 1, Len(is) - 1)), is[Len(is)])

RECURSIVE bag_set_t(_)
bag_set_t(is) ==
    IF is = <<>> THEN <<>>
    ELSE LET cdr_set == bag_set_t(Tail(is))
         IN  IF contains(Tail(is), Head(is)) THEN cdr_set
             ELSE prepend(cdr_set, Head(is))

(***************************************************************************)
(* struct set: union_t, operator +                                         *)
(***************************************************************************)
RECURSIVE union_t(_, _)
union_t(is, js) ==
    IF is = <<>> THEN js
    ELSE prepend(union_t(Tail(is), js), Head(is))

operator_plus(is, js) ==
    IF is = <<>> THEN js
    ELSE union_t(is, js)

(***************************************************************************)
(* struct set: subtract, difference, operator -                            *)
(***************************************************************************)
RECURSIVE subtract(_, _)
subtract(is, j) ==
    IF is = <<>> THEN <<>>
    ELSE IF Head(is) = j THEN Tail(is)
         ELSE prepend(subtract(Tail(is), j), Head(is))

\* this = is, the other pack = js; the alias recurses on the member
\* template of set<I, js...>::subtract<i>, with the pack is... as argument.
RECURSIVE difference(_, _)
difference(is, js) ==
    IF is = <<>> THEN js
    ELSE difference(subtract(js, Head(is)), Tail(is))

\* this = is, that = js
operator_minus(is, js) ==
    IF is = <<>> THEN js
    ELSE difference(js, is)

(***************************************************************************)
(* struct set: intersection, operator *                                    *)
(***************************************************************************)
RECURSIVE intersection_unfiltered(_, _)
intersection_unfiltered(is, js) ==
    IF is = <<>> THEN <<>>
    ELSE IF contains(js, Head(is)) THEN prepend(intersection_unfiltered(Tail(is), js), Head(is))
         ELSE prepend(intersection_unfiltered(Tail(is), js), Head(is))

RECURSIVE intersection(_, _)
intersection(is, js) ==
    IF is = <<>> THEN <<>>
    ELSE IF contains(js, Head(is)) THEN prepend(intersection(Tail(is), js), Head(is))
         ELSE intersection(Tail(is), js)

operator_times(is, js) ==
    IF is = <<>> THEN <<>>
    ELSE intersection(is, js)

(***************************************************************************)
(* struct set: smaller_than, larger_than, quick_sort                       *)
(***************************************************************************)
RECURSIVE smaller_than(_, _)
smaller_than(is, supremum) ==
    IF is = <<>> THEN <<>>
    ELSE IF Head(is) < supremum THEN prepend(smaller_than(Tail(is), supremum), Head(is))
         ELSE smaller_than(Tail(is), supremum)

RECURSIVE larger_than(_, _)
larger_than(is, infimum) ==
    IF is = <<>> THEN <<>>
    ELSE IF infimum < Head(is) THEN prepend(larger_than(Tail(is), infimum), Head(is))
         ELSE larger_than(Tail(is), infimum)

RECURSIVE quick_sort_no_pivot(_)
quick_sort_no_pivot(is) ==
    IF is = <<>> THEN <<>>
    ELSE operator_plus(quick_sort_no_pivot(smaller_than(is, Head(is))),
                       quick_sort_no_pivot(larger_than(is, Head(is))))

RECURSIVE quick_sort(_)
quick_sort(is) ==
    IF is = <<>> THEN <<>>
    ELSE operator_plus(operator_plus(quick_sort(smaller_than(is, Head(is))), <<Head(is)>>),
                       quick_sort(larger_than(is, Head(is))))

(***************************************************************************)
(* State: the set type at hand and the record of the last instantiation.   *)
(***************************************************************************)
VARIABLES
    self,   \* pack of the set type the next member template is applied to
    op,     \* the last member template or literal instantiated
    lhs,    \* pack of `this` in that instantiation, <<>> for a literal
    rhs,    \* the other pack js... (or the literal pack), <<>> if none
    arg,    \* the scalar template argument j, 0 if none
    ok,     \* whether the resulting type passed its static_asserts
    cmp     \* results of the last comparison

vars == <<self, op, lhs, rhs, arg, ok, cmp>>

NoCmp == [equals |-> FALSE, eq |-> FALSE, ne |-> FALSE, rev |-> FALSE]

\* The canonical empty set set<I>, which every recursion bottoms out at.
Init ==
    /\ self = <<>>
    /\ op = "empty_set"
    /\ lhs = <<>>
    /\ rhs = <<>>
    /\ arg = 0
    /\ ok = TRUE
    /\ cmp = NoCmp

\* The record of which template was instantiated, on which packs.
Note(o, this, js, j) ==
    /\ op' = o
    /\ lhs' = this
    /\ rhs' = js
    /\ arg' = j

\* The type r named by an instantiation comes into being only if its
\* static_asserts hold; otherwise translation fails and no type results.
Yield(r) ==
    /\ ok' = set_instantiate(r)
    /\ self' = IF ok' THEN r ELSE self

\* set<I, is...>{} written as a literal
Construct(is) ==
    /\ Note("set", <<>>, is, 0)
    /\ cmp' = NoCmp
    /\ Yield(is)

\* type_traits::set_t<I, is...>{}
FromBag(is) ==
    /\ Note("bag", <<>>, is, 0)
    /\ cmp' = NoCmp
    /\ Yield(bag_set_t(is))

ApplyPrepend(j) ==
    /\ Note("prepend", self, <<>>, j)
    /\ cmp' = NoCmp
    /\ Yield(prepend(self, j))

ApplyAppend(j) ==
    /\ Note("append", self, <<>>, j)
    /\ cmp' = NoCmp
    /\ Yield(append(self, j))

ApplySubtract(j) ==
    /\ Note("subtract", self, <<>>, j)
    /\ cmp' = NoCmp
    /\ Yield(subtract(self, j))

ApplyUnion(js) ==
    /\ Note("union_t", self, js, 0)
    /\ cmp' = NoCmp
    /\ Yield(union_t(self, js))

ApplyPlus(js) ==
    /\ Note("operator+", self, js, 0)
    /\ cmp' = NoCmp
    /\ Yield(operator_plus(self, js))

ApplyDifference(js) ==
    /\ Note("difference", self, js, 0)
    /\ cmp' = NoCmp
    /\ Yield(difference(self, js))

ApplyMinus(js) ==
    /\ Note("operator-", self, js, 0)
    /\ cmp' = NoCmp
    /\ Yield(operator_minus(self, js))

ApplyIntersection(js) ==
    /\ Note("intersection", self, js, 0)
    /\ cmp' = NoCmp
    /\ Yield(intersection(self, js))

ApplyTimes(js) ==
    /\ Note("operator*", self, js, 0)
    /\ cmp' = NoCmp
    /\ Yield(operator_times(self, js))

ApplySmallerThan(j) ==
    /\ Note("smaller_than", self, <<>>, j)
    /\ cmp' = NoCmp
    /\ Yield(smaller_than(self, j))

ApplyLargerThan(j) ==
    /\ Note("larger_than", self, <<>>, j)
    /\ cmp' = NoCmp
    /\ Yield(larger_than(self, j))

ApplyQuickSort ==
    /\ Note("quick_sort", self, <<>>, 0)
    /\ cmp' = NoCmp
    /\ Yield(quick_sort(self))

\* A comparison yields a bool and names no new type.
ApplyCompare(js) ==
    /\ Note("equals", self, js, 0)
    /\ ok' = TRUE
    /\ cmp' = [equals |-> equals(self, js),
               eq |-> operator_eq(self, js),
               ne |-> operator_ne(self, js),
               rev |-> operator_eq(js, self)]
    /\ self' = self

\* The set algebra: member templates applied to the set at hand.
Next ==
    \/ \E j \in Elems : ApplyPrepend(j)
    \/ \E j \in Elems : ApplyAppend(j)
    \/ \E j \in Elems : ApplySubtract(j)
    \/ \E js \in Sets : ApplyUnion(js)
    \/ \E js \in Sets : ApplyPlus(js)
    \/ \E js \in Sets : ApplyDifference(js)
    \/ \E js \in Sets : ApplyMinus(js)
    \/ \E js \in Sets : ApplyIntersection(js)
    \/ \E js \in Sets : ApplyTimes(js)
    \/ \E j \in Elems : ApplySmallerThan(j)
    \/ \E j \in Elems : ApplyLargerThan(j)
    \/ ApplyQuickSort
    \/ \E js \in Sets : ApplyCompare(js)

Spec == Init /\ [][Next]_vars

\* Literals: a set or a bag written out as a pack, duplicates possible.
NextLiteral ==
    \/ \E is \in Packs : Construct(is)
    \/ \E is \in Packs : FromBag(is)

SpecLiteral == Init /\ [][NextLiteral]_vars

(***************************************************************************)
(* Properties.  In a state reached by a member template, lhs is the pack   *)
(* of `this` (A), rhs the other pack (B) and self the resulting set.       *)
(***************************************************************************)

\* C1: A.difference(B) is a set whose members are exactly the elements of B
\* that are not in A.
C1_DifferenceIsOtherMinusThis ==
    op = "difference" =>
        /\ ok
        /\ NoDup(self)
        /\ Range(self) = {x \in Range(rhs) : x \notin Range(lhs)}

\* C2: A - B has exactly the elements of A that are not in B; in particular
\* (empty set) - B is empty and A - (empty set) is A.
C2_MinusIsThisWithoutThat ==
    op = "operator-" =>
        /\ ok
        /\ Range(self) = Range(lhs) \ Range(rhs)
        /\ (lhs = <<>> => self = <<>>)
        /\ (rhs = <<>> => self = lhs)

\* C3: A.union(B) and A + B contain v iff v is in A or in B, contain no value
\* twice, and their size is the number of distinct values of A and B.
C3_UnionMembers ==
    op \in {"union_t", "operator+"} =>
        /\ ok
        /\ NoDup(self)
        /\ Range(self) = Range(lhs) \cup Range(rhs)
        /\ size(self) = Cardinality(Range(lhs) \cup Range(rhs))

C3_Witness ==
    /\ op \in {"union_t", "operator+"}
    /\ Len(lhs) = 2
    /\ Len(rhs) = 2
    /\ Cardinality(Range(lhs) \cap Range(rhs)) = 1
    /\ Len(self) = 3

\* C4 as stated: the order of A.union(B) is A in A's order, followed by the
\* elements of B that are not in A, in B's order.
C4_ThisFirstThenNewOfOther ==
    op \in {"union_t", "operator+"} =>
        self = lhs \o Restrict(rhs, Range(lhs), FALSE)

\* C4 as amended: the order of A.union(B) is the elements of A that are not
\* in B, in A's order, followed by all of B in B's order.
C4_NewOfThisThenOther ==
    op \in {"union_t", "operator+"} =>
        self = Restrict(lhs, Range(rhs), FALSE) \o rhs

C4_Witness ==
    /\ op = "union_t"
    /\ lhs = <<1, 2>>
    /\ rhs = <<3, 2>>
    /\ self = <<1, 3, 2>>

\* C5: quick_sort() of a set terminates with a strictly ascending sequence
\* (which satisfies is_everse_list) of the same size that equals the set.
C5_QuickSortSortsAndPreserves ==
    op = "quick_sort" =>
        /\ ok
        /\ StrictlyAscending(self)
        /\ is_everse_list(self)
        /\ size(self) = size(lhs)
        /\ equals(self, lhs)
        /\ Range(self) = Range(lhs)

C5_Witness ==
    /\ op = "quick_sort"
    /\ Len(lhs) = 3
    /\ lhs[1] > lhs[3]
    /\ lhs[3] > lhs[2]
    /\ self # lhs

\* C6: a literal set with a value at two positions, whichever they are, is
\* rejected: no type results from it and the set at hand stays as it was;
\* a literal without duplicates is accepted as written.
C6_DuplicateLiteralRejected ==
    [][op' = "set" =>
            IF NoDup(rhs') THEN ok' /\ self' = rhs'
            ELSE ~ok' /\ self' = self /\ NoDup(self')]_vars

C6_Witness ==
    /\ op = "set"
    /\ Len(rhs) = 3
    /\ rhs[1] # rhs[2]
    /\ rhs[2] = rhs[3]
    /\ ~ok
    /\ self # rhs

\* C7: A.intersection(B) and A * B are the subsequence of A of the elements
\* that occur in B, in A's order, and empty when A or B is empty.
C7_IntersectionFiltersThis ==
    op \in {"intersection", "operator*"} =>
        /\ ok
        /\ self = Restrict(lhs, Range(rhs), TRUE)
        /\ (lhs = <<>> \/ rhs = <<>> => self = <<>>)

C7_Witness ==
    /\ op \in {"intersection", "operator*"}
    /\ Len(lhs) = 3
    /\ Len(rhs) = 2
    /\ Len(self) = 2
    /\ self # rhs

\* C8: the set_t of a bag has no duplicates, has exactly the distinct values
\* of the bag, and is the bag with only the last occurrence of each value
\* kept, in the original order.
C8_BagKeepsLastOccurrence ==
    op = "bag" =>
        /\ ok
        /\ NoDup(self)
        /\ Range(self) = Range(rhs)
        /\ self = PickIdx(rhs, LastIdx(rhs))

C8_Witness ==
    /\ op = "bag"
    /\ Len(rhs) = 3
    /\ rhs[1] = rhs[3]
    /\ rhs[1] # rhs[2]
    /\ self = <<rhs[2], rhs[3]>>

\* C9: A.equals(B) and A == B hold iff A and B have the same members in
\* whatever order, A == B iff B == A, and A != B is the negation of A == B.
C9_EqualsIsSameMembers ==
    op = "equals" =>
        /\ cmp.equals = (Range(lhs) = Range(rhs))
        /\ cmp.eq = (Range(lhs) = Range(rhs))
        /\ cmp.rev = cmp.eq
        /\ cmp.ne = ~cmp.eq

C9_Witness ==
    /\ op = "equals"
    /\ Len(lhs) = 2
    /\ Len(rhs) = 2
    /\ lhs # rhs
    /\ cmp.eq
    /\ ~cmp.ne

\* C10: whatever member templates are applied in whatever sequence, every
\* result passes the static_asserts, has no duplicates, and its size() is
\* the number of its distinct members.
C10_ClosedUnderOperations ==
    /\ ok
    /\ NoDup(self)
    /\ size(self) = Cardinality(Range(self))

C10_Witness ==
    /\ op = "append"
    /\ Len(lhs) = MaxElem
    /\ self = lhs
    /\ arg = lhs[1]

====
